---------------------------- MODULE Spec2Model ----------------------------
(***************************************************************************)
(* A model of benchy/benchmark.py: the Benchmark class (construction,      *)
(* checksum, run), the timing routine magic_timeit (calibration, repeated  *)
(* trials, best-of, unit selection) and the discovery function             *)
(* gather_benchmarks.                                                      *)
(*                                                                         *)
(* Time is counted in clock ticks of one microsecond.  The clock and the   *)
(* user's snippets are the environment: every execution of the timed       *)
(* statement costs a number of ticks chosen by the environment, and every  *)
(* execution of a snippet either completes or raises.  The timeit module   *)
(* of the runtime is the environment too: its source template has the      *)
(* placeholders of the Python release the program runs on.  Python's None  *)
(* is the empty tuple <<>> and a present optional value v is <<v>>.        *)
(***************************************************************************)
EXTENDS Integers, Sequences, FiniteSets, TLC

VARIABLES
    template,    \* the placeholders of timeit.template in the runtime's library
    pc,          \* position of the program: idle, calibrate, repeat, cleanup, returned, raised
    caller,      \* "run": magic_timeit was entered from Benchmark.run; "direct": called by the user
    self,        \* the Benchmark whose run is executing (<<>> for a direct call)
    ns,          \* run's local ns: the environment _setup returned (0: none)
    timer_ns,    \* magic_timeit's parameter ns (0: not entered)
    ncalls,      \* magic_timeit's parameter ncalls
    repeat,      \* magic_timeit's parameter repeat
    force_ms,    \* magic_timeit's parameter force_ms
    number,      \* magic_timeit's local number
    attempt,     \* iterations of the calibration loop completed
    trials,      \* the list timer.repeat is building: elapsed ticks of each timed trial
    calibCost,   \* per-execution cost the clock showed in the first calibration trial (-1: none)
    uniform,     \* every calibration trial so far showed the same per-execution cost
    reached,     \* the calibration loop left through its break
    result,      \* run's local result, wrapped (<<>>: unbound)
    returned,    \* what the last call returned to its caller, wrapped (<<>>: nothing)
    raised,      \* the exception the last call propagated to its caller ("": none)
    codeRaised,  \* the timed statement raised during this call, compiled or executed
    log,         \* this call's executions, in order: <<kind, environment, iterations, outcome>>
    results,     \* the batch driver's list of collected results
    ran,         \* for each collected result: the benchmark run and whether its code raised
    lookups,     \* the get_results calls made: the benchmark and the key it handed to the database
    namespace,   \* the mapping handed to gather_benchmarks, in its iteration order
    gathered     \* what the last gather_benchmarks call returned (<<>>: not called)

libVars    == <<template>>
callVars   == <<caller, self, ns, timer_ns, ncalls, repeat, force_ms>>
timerVars  == <<number, attempt, trials, calibCost, uniform, reached>>
outVars    == <<result, returned, raised, codeRaised, log>>
batchVars  == <<results, ran>>
idVars     == <<lookups>>
gatherVars == <<namespace, gathered>>
vars == <<libVars, pc, callVars, timerVars, outVars, batchVars, idVars, gatherVars>>

-----------------------------------------------------------------------------
(* Bounds of the model *)

MaxBatch == 3
MaxRepeat == 3
MaxElapsed == 2000000000
MaxBindings == 3
MaxLookups == 2

-----------------------------------------------------------------------------
(* Values *)

None == <<>>

Some(v) == <<v>>

Min(a, b) == IF a <= b THEN a ELSE b

RECURSIVE SeqMin(_)
SeqMin(s) == IF Len(s) = 1 THEN s[1] ELSE Min(s[1], SeqMin(Tail(s)))

RECURSIVE Pow10(_)
Pow10(k) == IF k = 0 THEN 1 ELSE 10 * Pow10(k - 1)



-----------------------------------------------------------------------------
(* class Benchmark *)

\* Benchmark.__init__: the fields it stores that the model reads; a missing
\* cleanup becomes the empty text.
Benchmark(code, setup, n, r, cleanup, name) ==
    [code    |-> code,
     setup   |-> setup,
     cleanup |-> IF cleanup = None THEN "" ELSE cleanup[1],
     ncalls  |-> n,
     repeat  |-> r,
     name    |-> name]

\* hashlib.md5(text).hexdigest(), taken as injective on the text it is given.
md5(text) == <<"md5", text>>

\* Benchmark.checksum
checksum(b) == md5(b.setup \o b.code \o b.cleanup)

-----------------------------------------------------------------------------
(* magic_timeit: the clock, calibration, best-of, unit selection *)

units == <<"s", "ms", "us", "ns">>

scaling == <<1, 1000, 1000000, 1000000000>>

\* timeit.default_timer counts seconds; the model counts its ticks, a
\* microsecond each.
TicksPerSecond == 1000000

\* The threshold of the comment above the calibration loop, 0.2 seconds.
ThresholdOfComment == TicksPerSecond \div 5

\* The 0.1 of `timer.timeit(number) >= 0.1`, in ticks.
Threshold == TicksPerSecond \div 10

\* range(1, 10): the calibration loop runs at most this many times.
CalibrationRange == 9

\* number *= 10
Escalate(n) == n * 10

\* timer.timeit(number) under a clock that charges `cost` ticks for each
\* execution of the statement: the statement runs `number` times.
Elapsed(n, cost) == IF n <= 0 THEN 0 ELSE n * cost

\* The per-execution costs the clock may show for n executions: the elapsed
\* time stays within MaxElapsed.
Affordable(Costs, n) == {c \in Costs : n <= 0 \/ c <= MaxElapsed \div n}

\* best = min(...) / number is a float: the model keeps it exact, as min
\* ticks over number.  best >= 10^k seconds, for min > 0 and number > 0.
AtLeastPow10(num, den, k) ==
    IF k >= 0
    THEN IF k > 3 THEN FALSE ELSE (num \div (TicksPerSecond * Pow10(k))) >= den
    ELSE IF -k <= 6
         THEN (num \div (TicksPerSecond \div Pow10(-k))) >= den
         ELSE IF -k - 6 > 9 THEN TRUE
              ELSE num >= (den + Pow10(-k - 6) - 1) \div Pow10(-k - 6)

\* math.floor(math.log10(best))
FloorLog10(num, den) ==
    CHOOSE k \in -16..3 : AtLeastPow10(num, den, k) /\ ~AtLeastPow10(num, den, k + 1)

\* Order, had the division by 3 truncated toward zero instead of flooring.
OrderTruncating(num, den, forceMs) ==
    IF forceMs THEN 1
    ELSE IF num > 0 /\ den > 0 /\ ~AtLeastPow10(num, den, 3)
         THEN LET k == FloorLog10(num, den)
              IN  Min(-(IF k >= 0 THEN k \div 3 ELSE -((-k) \div 3)), 3)
         ELSE IF num > 0 /\ den > 0 /\ AtLeastPow10(num, den, 3) THEN 0
              ELSE 3

\* The index into units and scaling (0-based, as in the code).
Order(num, den, forceMs) ==
    IF forceMs THEN 1
    ELSE IF num > 0 /\ den > 0 /\ ~AtLeastPow10(num, den, 3)
         THEN Min(-(FloorLog10(num, den) \div 3), 3)
         ELSE IF num > 0 /\ den > 0 /\ AtLeastPow10(num, den, 3) THEN 0
              ELSE 3

RECURSIVE SeqSum(_)
SeqSum(s) == IF s = <<>> THEN 0 ELSE s[1] + SeqSum(Tail(s))

\* Best, had the code averaged the trials.
BestMean(ts) == SeqSum(ts) \div Len(ts)

\* min(timer.repeat(repeat, number))
Best(ts) == SeqMin(ts)

\* The dictionary magic_timeit returns.  timing is best * scaling[order],
\* kept exact: (num / den) seconds-ticks times scale.
TimeitResult(n, r, ts, forceMs) ==
    [loops  |-> n,
     repeat |-> r,
     timing |-> [num |-> Best(ts), den |-> n, scale |-> scaling[Order(Best(ts), n, forceMs) + 1]],
     units  |-> units[Order(Best(ts), n, forceMs) + 1]]

\* result['success'] = True
WithSuccess(d) ==
    [loops |-> d.loops, repeat |-> d.repeat, timing |-> d.timing, units |-> d.units,
     success |-> TRUE]

\* The except clause of run: the traceback text names the exception.
Failure(exc) == [success |-> FALSE, traceback |-> "Traceback (most recent call last): " \o exc]

-----------------------------------------------------------------------------
(* magic_timeit: the source it builds from the library's template *)

\* The placeholders of timeit.template: %(setup)s and %(stmt)s up to Python
\* 2.6, and %(init)s as well in Python 2.7.
Templates == {{"setup", "stmt"}, {"init", "setup", "stmt"}}

\* The keys of the mapping magic_timeit formats the template with.
TemplateKeys == {"stmt", "setup"}

\* placeholders % mapping succeeds: every placeholder has a key.  A
\* placeholder without one raises KeyError.
Formats(placeholders, keys) == placeholders \subseteq keys

\* The exception magic_timeit raises before its first trial ("": none).  The
\* template is formatted first, then the source is compiled: a statement that
\* is not valid Python raises SyntaxError there.
EntryError(compiles) ==
    IF ~Formats(template, TemplateKeys) THEN "KeyError"
    ELSE IF ~compiles THEN "SyntaxError"
         ELSE ""

-----------------------------------------------------------------------------
(* The state after the module is loaded: nothing has been called. *)

Init ==
    /\ template \in Templates
    /\ pc = "idle"
    /\ caller = "none"
    /\ self = None
    /\ ns = 0
    /\ timer_ns = 0
    /\ ncalls = None
    /\ repeat = 0
    /\ force_ms = FALSE
    /\ number = 0
    /\ attempt = 0
    /\ trials = <<>>
    /\ calibCost = -1
    /\ uniform = TRUE
    /\ reached = FALSE
    /\ result = None
    /\ returned = None
    /\ raised = ""
    /\ codeRaised = FALSE
    /\ log = <<>>
    /\ results = <<>>
    /\ ran = <<>>
    /\ lookups = <<>>
    /\ namespace = <<>>
    /\ gathered = None

\* A mapping created now, globals().copy() or a caller's own: an object
\* distinct from globals() and from the environments of the results the
\* batch driver holds.
NewEnv == Len(results) + 1

\* No call is in progress.
Ready == pc \in {"idle", "returned", "raised"}

\* Throw, had run returned the failure record from inside its except clause.
ThrowSkippingCleanup(exc) ==
    IF caller = "run"
    THEN /\ result' = Some(Failure(exc))
         /\ pc' = "returned"
         /\ raised' = raised
         /\ returned' = Some(Failure(exc))
    ELSE /\ raised' = exc
         /\ pc' = "raised"
         /\ result' = result
         /\ returned' = returned

\* An exception leaving magic_timeit: run's bare except turns it into a
\* failure record and goes on to the cleanup; a direct caller receives it.
Throw(exc) ==
    IF caller = "run"
    THEN /\ result' = Some(Failure(exc))
         /\ pc' = "cleanup"
         /\ raised' = raised
         /\ returned' = returned
    ELSE /\ raised' = exc
         /\ pc' = "raised"
         /\ result' = result
         /\ returned' = returned

\* magic_timeit's parameters and locals when the call never reached them.
NotEntered ==
    /\ ncalls' = None
    /\ repeat' = 0
    /\ force_ms' = FALSE
    /\ number' = 0
    /\ attempt' = 0
    /\ trials' = <<>>
    /\ calibCost' = -1
    /\ uniform' = TRUE
    /\ reached' = FALSE

\* magic_timeit up to its first trial, when the template formats and the
\* source compiles: the source is executed in ns, then number is 1 (to be
\* calibrated) or ncalls.
EnterTimeit(n, r, forceMs) ==
    /\ ncalls' = n
    /\ repeat' = r
    /\ force_ms' = forceMs
    /\ number' = IF n = None THEN 1 ELSE n[1]
    /\ attempt' = 0
    /\ trials' = <<>>
    /\ calibCost' = -1
    /\ uniform' = TRUE
    /\ reached' = FALSE
    /\ pc' = IF n = None THEN "calibrate" ELSE "repeat"

\* SetupRaises, had _setup been called inside run's try block.
SetupSwallowed ==
    /\ raised' = ""
    /\ result' = Some(Failure("SetupError"))
    /\ pc' = "cleanup"

\* An exception of the setup snippet is not caught: it leaves run, which
\* binds no result.
SetupRaises ==
    /\ raised' = "SetupError"
    /\ result' = None
    /\ pc' = "raised"

\* Benchmark.run, to the point where magic_timeit is about to run its first
\* trial.  _setup copies globals() into a new environment and executes the
\* setup snippet in it; an exception of the snippet leaves run at once.  An
\* exception magic_timeit raises before its first trial is caught by run's
\* bare except.
Run(b, setupOk, compiles) ==
    /\ Ready
    /\ caller' = "run"
    /\ self' = b
    /\ returned' = None
    /\ log' = << <<"setup", NewEnv, 0, IF setupOk THEN "ok" ELSE "raised">> >>
    /\ IF ~setupOk
       THEN /\ ns' = 0
            /\ timer_ns' = 0
            /\ SetupRaises
            /\ codeRaised' = FALSE
            /\ NotEntered
       ELSE /\ ns' = NewEnv
            /\ timer_ns' = NewEnv
            /\ raised' = ""
            /\ IF EntryError(compiles) = ""
               THEN /\ EnterTimeit(b.ncalls, b.repeat, TRUE)
                    /\ result' = None
                    /\ codeRaised' = FALSE
               ELSE /\ result' = Some(Failure(EntryError(compiles)))
                    /\ pc' = "cleanup"
                    /\ codeRaised' = (EntryError(compiles) = "SyntaxError")
                    /\ NotEntered
    /\ UNCHANGED <<libVars, batchVars, idVars, gatherVars>>

\* magic_timeit called by the user on an environment of their own.
DirectCall(n, r, forceMs, compiles) ==
    /\ Ready
    /\ caller' = "direct"
    /\ self' = None
    /\ ns' = 0
    /\ timer_ns' = NewEnv
    /\ returned' = None
    /\ result' = None
    /\ log' = <<>>
    /\ IF EntryError(compiles) = ""
       THEN /\ EnterTimeit(n, r, forceMs)
            /\ raised' = ""
            /\ codeRaised' = FALSE
       ELSE /\ raised' = EntryError(compiles)
            /\ pc' = "raised"
            /\ codeRaised' = (EntryError(compiles) = "SyntaxError")
            /\ NotEntered
    /\ UNCHANGED <<libVars, batchVars, idVars, gatherVars>>

\* One pass of the calibration loop: a trial of `number` executions, then
\* the break or the escalation.
Calibrate(cost, raises) ==
    /\ pc = "calibrate"
    /\ log' = Append(log, <<"calib", timer_ns, number, IF raises THEN "raised" ELSE "ok">>)
    /\ IF raises
       THEN /\ codeRaised' = TRUE
            /\ Throw("Exception")
            /\ UNCHANGED timerVars
       ELSE /\ calibCost' = IF attempt = 0 THEN cost ELSE calibCost
            /\ uniform' = (uniform /\ (attempt = 0 \/ cost = calibCost))
            /\ IF Elapsed(number, cost) >= Threshold
               THEN /\ reached' = TRUE
                    /\ pc' = "repeat"
                    /\ UNCHANGED <<number, attempt>>
               ELSE /\ number' = Escalate(number)
                    /\ attempt' = attempt + 1
                    /\ pc' = IF attempt + 1 < CalibrationRange THEN "calibrate" ELSE "repeat"
                    /\ UNCHANGED reached
            /\ UNCHANGED <<trials, result, returned, raised, codeRaised>>
    /\ UNCHANGED <<libVars, callVars, batchVars, idVars, gatherVars>>

\* One trial of timer.repeat(repeat, number).  With number = 0 the statement
\* is never executed and cannot raise.
Trial(cost, raises) ==
    /\ pc = "repeat"
    /\ Len(trials) < repeat
    /\ raises => number > 0
    /\ log' = Append(log, <<"timed", timer_ns, number, IF raises THEN "raised" ELSE "ok">>)
    /\ IF raises
       THEN /\ codeRaised' = TRUE
            /\ Throw("Exception")
            /\ UNCHANGED timerVars
       ELSE /\ trials' = Append(trials, Elapsed(number, cost))
            /\ UNCHANGED <<number, attempt, calibCost, uniform, reached>>
            /\ UNCHANGED <<pc, result, returned, raised, codeRaised>>
    /\ UNCHANGED <<libVars, callVars, batchVars, idVars, gatherVars>>

\* After the last trial: best = min(...) / number, the unit, the dictionary.
\* min of no trials raises ValueError; a number of 0 raises
\* ZeroDivisionError.
Finish ==
    /\ pc = "repeat"
    /\ Len(trials) >= repeat
    /\ IF trials = <<>>
       THEN Throw("ValueError")
       ELSE IF number = 0
            THEN Throw("ZeroDivisionError")
            ELSE IF caller = "run"
                 THEN /\ result' = Some(WithSuccess(TimeitResult(number, repeat, trials, force_ms)))
                      /\ pc' = "cleanup"
                      /\ UNCHANGED <<returned, raised>>
                 ELSE /\ returned' = Some(TimeitResult(number, repeat, trials, force_ms))
                      /\ pc' = "returned"
                      /\ UNCHANGED <<result, raised>>
    /\ UNCHANGED <<libVars, callVars, timerVars, codeRaised, log, batchVars, idVars, gatherVars>>

\* The environment run hands to _cleanup.
CleanupEnv == ns

\* self._cleanup(ns); return result.  An exception of the cleanup snippet
\* leaves run without a result.
Cleanup(raises) ==
    /\ pc = "cleanup"
    /\ log' = Append(log, <<"cleanup", CleanupEnv, 0, IF raises THEN "raised" ELSE "ok">>)
    /\ IF raises
       THEN /\ raised' = "CleanupError"
            /\ pc' = "raised"
            /\ UNCHANGED returned
       ELSE /\ returned' = result
            /\ pc' = "returned"
            /\ UNCHANGED raised
    /\ UNCHANGED <<libVars, callVars, timerVars, result, codeRaised, batchVars, idVars, gatherVars>>

-----------------------------------------------------------------------------
(* Calls of run and of magic_timeit, one at a time *)

NcallsChoices == {None, Some(0), Some(1), Some(2)}

RepeatChoices == 0..MaxRepeat

\* The benchmarks that are run.
Benchmarks ==
    {Benchmark("f()", "import f", n, r, None, "bench") : n \in NcallsChoices, r \in RepeatChoices}

\* Per-execution costs the clock may show during calibration, in ticks:
\* a clock that stands still, 5 microseconds, 0.5 milliseconds, 0.015 and
\* 0.05 seconds.
CalibrationCosts == {0, 5, 500, 15000, 50000}

\* Per-execution costs the clock may show in the timed trials, in ticks.
TrialCosts == {2, 5, 8}

Next ==
    \/ \E b \in Benchmarks, setupOk \in BOOLEAN, compiles \in BOOLEAN : Run(b, setupOk, compiles)
    \/ \E n \in NcallsChoices, r \in RepeatChoices, forceMs \in BOOLEAN, compiles \in BOOLEAN :
           DirectCall(n, r, forceMs, compiles)
    \/ \E cost \in Affordable(CalibrationCosts, number), raises \in BOOLEAN : Calibrate(cost, raises)
    \/ \E cost \in Affordable(TrialCosts, number), raises \in BOOLEAN : Trial(cost, raises)
    \/ Finish
    \/ \E raises \in BOOLEAN : Cleanup(raises)

Spec == Init /\ [][Next]_vars

-----------------------------------------------------------------------------
(* Unit selection: magic_timeit called with an explicit loop count, over   *)
(* per-iteration times from zero to more than 1000 seconds                 *)

UnitNcalls == {Some(1), Some(2), Some(1000), Some(1000000000)}

UnitCosts ==
    {0, 1, 500, 999, 1000, 999999, 1000000, 1000001, 999999999, 1000000000, 2000000000}

NextUnits ==
    \/ \E n \in UnitNcalls, forceMs \in BOOLEAN : DirectCall(n, 1, forceMs, TRUE)
    \/ \E cost \in Affordable(UnitCosts, number) : Trial(cost, FALSE)
    \/ Finish

SpecUnits == Init /\ [][NextUnits]_vars

-----------------------------------------------------------------------------
(* A batch: a driver runs benchmarks one after another and keeps the       *)
(* result of each                                                          *)

\* results.append(b.run()), with a note of the benchmark and of whether its
\* code raised.
Collect ==
    /\ pc = "returned"
    /\ caller = "run"
    /\ results' = Append(results, returned[1])
    /\ ran' = Append(ran, [benchmark |-> self, codeRaised |-> codeRaised])
    /\ pc' = "idle"
    /\ UNCHANGED <<libVars, callVars, timerVars, outVars, idVars, gatherVars>>

BatchBenchmarks ==
    {Benchmark("f()", "import f", None, 1, None, "calibrated"),
     Benchmark("f()", "import f", Some(0), 1, None, "no loops"),
     Benchmark("f()", "import f", Some(1), 0, None, "no trials"),
     Benchmark("f()", "import f", Some(1), 1, None, "one loop")}

NextBatch ==
    \/ /\ pc = "idle"
       /\ Len(results) < MaxBatch
       /\ \E b \in BatchBenchmarks, setupOk \in BOOLEAN, compiles \in BOOLEAN : Run(b, setupOk, compiles)
    \/ \E raises \in BOOLEAN : Calibrate(50000, raises)
    \/ \E raises \in BOOLEAN : Trial(5, raises)
    \/ Finish
    \/ \E raises \in BOOLEAN : Cleanup(raises)
    \/ Collect

SpecBatch == Init /\ [][NextBatch]_vars

-----------------------------------------------------------------------------
(* Identity: the key get_results hands to the database *)

Texts == {"", "a", "b"}

IdentityBenchmarks ==
    {Benchmark(code, setup, n, 3, cleanup, name) :
        code \in Texts, setup \in Texts, cleanup \in {None} \cup {Some(t) : t \in Texts},
        n \in {None, Some(1)}, name \in {"x", "y"}}

\* b.get_results(): db.get_benchmark_results(self.checksum)
GetResults(b) ==
    /\ Len(lookups) < MaxLookups
    /\ lookups' = Append(lookups, [benchmark |-> b, key |-> checksum(b)])
    /\ UNCHANGED <<libVars, pc, callVars, timerVars, outVars, batchVars, gatherVars>>

NextIdentity == \E b \in IdentityBenchmarks : GetResults(b)

SpecIdentity == Init /\ [][NextIdentity]_vars

-----------------------------------------------------------------------------
(* Discovery: gather_benchmarks over the values of a namespace *)

\* An object of the namespace: its class, a label, and for a list its items.
Object(type, name, items) == [type |-> type, name |-> name, items |-> items]

isinstance(v, type) == v.type = type

\* BenchmarkSuite.benchmarks: filter(lambda elem: isinstance(elem, Benchmark), self)
benchmarks(suite) == SelectSeq(suite.items, LAMBDA elem : isinstance(elem, "Benchmark"))

\* gather_benchmarks over ns.values(), in the mapping's iteration order.
RECURSIVE gather_benchmarks(_)
gather_benchmarks(values) ==
    IF values = <<>> THEN <<>>
    ELSE LET v == Head(values)
         IN  (IF isinstance(v, "Benchmark") THEN <<v>>
              ELSE IF isinstance(v, "BenchmarkSuite") THEN benchmarks(v)
              ELSE <<>>) \o gather_benchmarks(Tail(values))

\* The objects a module may declare.
Declared ==
    {Object("Benchmark", "a", <<>>),
     Object("int", "42", <<>>),
     Object("str", "not a benchmark", <<>>),
     Object("BenchmarkSuite", "", <<>>),
     Object("BenchmarkSuite", "", <<Object("Benchmark", "b1", <<>>),
                                    Object("str", "not a benchmark", <<>>)>>),
     Object("BenchmarkSuite", "", <<Object("Benchmark", "b1", <<>>),
                                    Object("str", "not a benchmark", <<>>),
                                    Object("BenchmarkSuite", "", <<Object("Benchmark", "b2", <<>>)>>)>>)}

\* A name is bound in the namespace.
Bind(v) ==
    /\ Len(namespace) < MaxBindings
    /\ namespace' = Append(namespace, v)
    /\ gathered' = None
    /\ UNCHANGED <<libVars, pc, callVars, timerVars, outVars, batchVars, idVars>>

\* gather_benchmarks(ns)
Gather ==
    /\ gathered' = Some(gather_benchmarks(namespace))
    /\ UNCHANGED namespace
    /\ UNCHANGED <<libVars, pc, callVars, timerVars, outVars, batchVars, idVars>>

NextGather ==
    \/ \E v \in Declared : Bind(v)
    \/ Gather

SpecGather == Init /\ [][NextGather]_vars

-----------------------------------------------------------------------------
(* Properties *)

\* The positions in the log of the executions of one kind.
Events(kind) == {i \in DOMAIN log : log[i][1] = kind}

\* A run whose setup succeeded has ended: it returned, or its cleanup raised.
RunOver == caller = "run" /\ pc \in {"returned", "raised"} /\ log[1][4] = "ok"

\* C1: in a run whose setup succeeded, every execution (setup, calibration
\* and timed trials, cleanup) happens in the environment setup built; the
\* cleanup is the last execution of the run, after every trial; and when the
\* run is over the cleanup has been executed exactly once, whether the timed
\* code succeeded or raised.
C1_CleanupExactlyOnce ==
    (caller = "run" /\ log[1][4] = "ok") =>
        /\ \A i \in DOMAIN log : log[i][2] = ns
        /\ \A i \in Events("cleanup") : i = Len(log) /\ pc \in {"returned", "raised"}
        /\ RunOver => Cardinality(Events("cleanup")) = 1

\* C1: a run whose timed code raised in a timed trial has returned after its
\* cleanup.
C1_Witness ==
    /\ RunOver
    /\ pc = "returned"
    /\ codeRaised
    /\ Events("timed") # {}
    /\ log[Len(log)] = <<"cleanup", ns, 0, "ok">>

\* C8: when the setup snippet raises, run propagates the exception, binds
\* and returns no result, and executes neither the timed code nor the
\* cleanup.
C8_SetupFailurePropagates ==
    (caller = "run" /\ log[1][4] = "raised") =>
        /\ pc = "raised"
        /\ raised = "SetupError"
        /\ result = None
        /\ returned = None
        /\ Len(log) = 1

\* C8: a run whose setup raised.
C8_Witness == caller = "run" /\ log[1] = <<"setup", 1, 0, "raised">> /\ pc = "raised"

\* magic_timeit produced a dictionary in this call.
Succeeded ==
    \/ caller = "run" /\ result # None /\ result[1].success
    \/ caller = "direct" /\ returned # None

TheResult == IF caller = "run" THEN result[1] ELSE returned[1]

\* C6: calibration under a clock that charges the same cost t for every
\* execution, 0 < t < 0.1 seconds, once a trial has reached the threshold:
\* number is the smallest power of ten with number * t >= 0.1 seconds, and
\* one trial of that size takes at most 1.0 second.
C6_CalibrationConverges ==
    (ncalls = None /\ reached /\ uniform /\ calibCost > 0 /\ calibCost < TicksPerSecond \div 10) =>
        /\ \E k \in 0..9 : number = Pow10(k)
        /\ number * calibCost >= TicksPerSecond \div 10
        /\ (number \div 10) * calibCost < TicksPerSecond \div 10
        /\ number * calibCost <= TicksPerSecond

\* C6: a statement of 0.05 seconds is calibrated to 10 loops.
C6_Witness ==
    ncalls = None /\ reached /\ uniform /\ calibCost = 50000 /\ number = 10 /\ pc = "repeat"

\* C7: when magic_timeit produces its dictionary it has run exactly `repeat`
\* timed trials, one after another, each of the reported loop count and in
\* the environment it was given, and the per-iteration time is the smallest
\* of the trial times over the loop count.
C7_BestOfRepeat ==
    Succeeded =>
        /\ Cardinality(Events("timed")) = repeat
        /\ TheResult.repeat = repeat
        /\ Len(trials) = repeat
        /\ \A i \in Events("timed") :
               log[i][2] = timer_ns /\ log[i][3] = TheResult.loops /\ log[i][4] = "ok"
        /\ \A i, j \in Events("timed") : \A k \in DOMAIN log : (i < k /\ k < j) => k \in Events("timed")
        /\ TheResult.timing.den = TheResult.loops
        /\ \A i \in DOMAIN trials : TheResult.timing.num <= trials[i]
        /\ \E i \in DOMAIN trials : TheResult.timing.num = trials[i]

\* C7: trial times 5, 2, 8 of one loop each give 2.
C7_Witness ==
    /\ Succeeded
    /\ trials = <<5, 2, 8>>
    /\ TheResult.loops = 1
    /\ TheResult.timing.num = 2

\* C9 as stated: when calibration ends without any trial reaching the
\* threshold, at most 10 trials were attempted and number is the size of
\* the last trial attempted.
C9_LastAttemptedSizeUsed ==
    (ncalls = None /\ ~reached /\ attempt = CalibrationRange) =>
        /\ Cardinality(Events("calib")) <= 10
        /\ \E i \in Events("calib") :
               /\ \A j \in Events("calib") : j <= i
               /\ number = log[i][3]

\* C10 as stated: with ncalls = 0 no timed trial is executed and no
\* division by zero is performed.
C10_ZeroLoopsRejected ==
    ncalls = Some(0) =>
        /\ Events("timed") = {}
        /\ raised # "ZeroDivisionError"
        /\ result # Some(Failure("ZeroDivisionError"))

\* The dictionary a direct call of magic_timeit returned.
Reported == caller = "direct" /\ pc = "returned" /\ returned # None

\* The per-iteration time of the returned dictionary is exactly 1.0 second.
OneSecond ==
    /\ returned[1].timing.num % TicksPerSecond = 0
    /\ returned[1].timing.num \div TicksPerSecond = returned[1].timing.den

\* The per-iteration time of the returned dictionary is exactly 0.0005
\* seconds, 500 ticks.
HalfMillisecond ==
    /\ returned[1].timing.num % 500 = 0
    /\ returned[1].timing.num \div 500 = returned[1].timing.den

\* C5 as amended: with force_ms false, 1.0 second per iteration is reported
\* in seconds and 0.0005 seconds in microseconds; with force_ms true every
\* time, zero and 1000 seconds or more included, is reported in
\* milliseconds.
C5_UnitSelection ==
    Reported =>
        /\ force_ms => (returned[1].units = "ms" /\ returned[1].timing.scale = 1000)
        /\ (~force_ms /\ OneSecond) =>
               (returned[1].units = "s" /\ returned[1].timing.scale = 1)
        /\ (~force_ms /\ HalfMillisecond) =>
               (returned[1].units = "us" /\ returned[1].timing.scale = 1000000)

\* C5: 0.0005 seconds per iteration, force_ms false, reported in microseconds.
C5_Witness == Reported /\ ~force_ms /\ HalfMillisecond /\ returned[1].units = "us"

\* C5 as stated: 0.0005 seconds per iteration, force_ms false, is reported
\* in milliseconds (and the rest as above).
C5_Original ==
    Reported =>
        /\ force_ms => returned[1].units = "ms"
        /\ (~force_ms /\ OneSecond) => returned[1].units = "s"
        /\ (~force_ms /\ HalfMillisecond) => returned[1].units = "ms"

\* C2 as stated: a collected result has success false (with a traceback and
\* no timing, loops or units) when the benchmark's code raised, and success
\* true when it did not, whatever the results before it.
C2_FailureIsolation ==
    \A i \in DOMAIN results :
        /\ ran[i].codeRaised =>
               (/\ ~results[i].success
                /\ DOMAIN results[i] = {"success", "traceback"}
                /\ results[i].traceback # "")
        /\ ~ran[i].codeRaised => results[i].success

\* C3 as stated: two benchmarks have the same checksum exactly when their
\* setup, code and cleanup texts are equal.
C3_ChecksumIffSameTexts ==
    \A i, j \in DOMAIN lookups :
        (lookups[i].key = lookups[j].key) <=>
            /\ lookups[i].benchmark.setup = lookups[j].benchmark.setup
            /\ lookups[i].benchmark.code = lookups[j].benchmark.code
            /\ lookups[i].benchmark.cleanup = lookups[j].benchmark.cleanup

\* Every Benchmark among the values or inside a suite at any depth, in
\* traversal order.
RECURSIVE Flatten(_)
Flatten(values) ==
    IF values = <<>> THEN <<>>
    ELSE (IF Head(values).type = "Benchmark" THEN <<Head(values)>>
          ELSE IF Head(values).type = "BenchmarkSuite" THEN Flatten(Head(values).items)
          ELSE <<>>) \o Flatten(Tail(values))

\* C4 as stated: gather_benchmarks returns every Benchmark of the namespace,
\* those of suites nested at any depth included, in traversal order.
C4_GatherFlattensAllDepths == gathered # None => gathered[1] = Flatten(namespace)

=============================================================================
